---- MODULE Spec2Model ----
EXTENDS Integers, Sequences, FiniteSets, Bags, TLC

\* Model of src/covidApp.py: get_data (fetch, national melt, regional
\* indicators), the st.cache memoisation around it, and the region filter
\* applied by the script after the sidebar widgets.

VARIABLES
    data,       \* rows of the parsed CSV (pandas index = position)
    cols,       \* column names of the parsed CSV
    pc,         \* "idle" | "done" | "error"
    err,        \* exception raised by get_data, "none" otherwise
    region,     \* df_covid19_region returned by get_data
    fr,         \* df_covid19_fr returned by get_data
    regions,    \* list(df_covid19_region.maille_nom.unique())
    sel,        \* multiselection
    view,       \* filtered / re-sorted df_covid19_region
    filtered,   \* the filter step has run
    cache,      \* st.cache: call key (arguments as passed) -> returned tables
    fetchCount, \* number of network reads (pd.read_csv) per url
    writes,     \* number of results st.cache stored per key
    calls,      \* number of get_data calls started
    spc,        \* per script session: "idle" | "running" (inside get_data)
    skey,       \* per script session: key of the call it is running
    lastKey,    \* key of the call the last step started or finished
    lastHit     \* the last step was a call served from the cache

vars == <<data, cols, pc, err, region, fr, regions, sel, view, filtered,
          cache, fetchCount, writes, calls, spc, skey, lastKey, lastHit>>

----
\* Nullable numbers: <<>> is NaN / null, <<v>> is the value v.
Null == <<>>

NGt(x, k) == x # Null /\ x[1] > k

NSub(a, b) == IF a = Null \/ b = Null THEN Null ELSE <<a[1] - b[1]>>

MaxSet(S) == CHOOSE m \in S : \A x \in S : x <= m

\* maille_nom strings, in their lexicographic order
RegionNames == <<"Bretagne", "France", "Grand Est">>

RegionRank(n) == CHOOSE i \in 1..Len(RegionNames) : RegionNames[i] = n

AllCols == {"date", "granularite", "source_type", "maille_nom",
            "cas_confirmes", "deces", "reanimation"}

----
\* sort_values(by=["maille_nom", "date"], ascending=[True, dateAsc]):
\* multi-key sort in pandas is a stable lexsort.
SortKey(r, dateAsc) == <<RegionRank(r.maille_nom), IF dateAsc THEN r.date ELSE -r.date>>

KeyLeq(a, b) == a[1] < b[1] \/ (a[1] = b[1] /\ a[2] <= b[2])

InsertPosUnstable(s, r, dateAsc) ==
    Cardinality({j \in 1..Len(s) : KeyLeq(SortKey(s[j], dateAsc), SortKey(r, dateAsc))
                                   /\ SortKey(s[j], dateAsc) # SortKey(r, dateAsc)})

InsertPos(s, r, dateAsc) ==
    Cardinality({j \in 1..Len(s) : KeyLeq(SortKey(s[j], dateAsc), SortKey(r, dateAsc))})

InsertSorted(s, r, dateAsc) ==
    LET p == InsertPos(s, r, dateAsc)
    IN SubSeq(s, 1, p) \o <<r>> \o SubSeq(s, p + 1, Len(s))

RECURSIVE SortValues(_, _)
SortValues(s, dateAsc) ==
    IF s = <<>> THEN <<>>
    ELSE InsertSorted(SortValues(SubSeq(s, 1, Len(s) - 1), dateAsc), s[Len(s)], dateAsc)

----
\* Regional branch of get_data.
IsRegional(r) == r.granularite = "region" /\ r.source_type = "agences-regionales-sante"

\* data[mask][["date", "maille_nom", "cas_confirmes", "deces"]], keeping the index
RegionProjection(rows) ==
    LET I == {i \in 1..Len(rows) : IsRegional(rows[i])}
        ord == CHOOSE f \in [1..Cardinality(I) -> I] :
                   \A a, b \in 1..Cardinality(I) : a < b => f[a] < f[b]
    IN [k \in 1..Cardinality(I) |->
          [idx |-> ord[k], date |-> rows[ord[k]].date,
           maille_nom |-> rows[ord[k]].maille_nom,
           cas_confirmes |-> rows[ord[k]].cas_confirmes,
           deces |-> rows[ord[k]].deces]]

GroupDiffReversed(s, i, field) ==
    LET P == {j \in 1..(i - 1) : s[j].maille_nom = s[i].maille_nom}
    IN IF P = {} THEN Null ELSE NSub(s[MaxSet(P)][field], s[i][field])

\* groupby("maille_nom")[field].diff()
GroupDiff(s, i, field) ==
    LET P == {j \in 1..(i - 1) : s[j].maille_nom = s[i].maille_nom}
    IN IF P = {} THEN Null ELSE NSub(s[i][field], s[MaxSet(P)][field])

\* deces / cas_confirmes on float64 columns
Divide(d, c) ==
    IF d = Null \/ c = Null THEN [kind |-> "nan", n |-> 0, d |-> 0]
    ELSE IF c[1] = 0 THEN
        IF d[1] = 0 THEN [kind |-> "nan", n |-> 0, d |-> 0]
        ELSE [kind |-> "inf", n |-> d[1], d |-> 0]
    ELSE [kind |-> "num", n |-> d[1], d |-> c[1]]

\* s[s[field] > thr].groupby("maille_nom")[field].rank(method="first")
\* assigned back by index: rows outside the mask get NaN.
RankFirst(s, i, field, thr) ==
    IF ~NGt(s[i][field], thr) THEN Null
    ELSE LET Q == {j \in 1..Len(s) : s[j].maille_nom = s[i].maille_nom
                                      /\ NGt(s[j][field], thr)}
         IN <<Cardinality({j \in Q : s[j][field][1] < s[i][field][1]})
              + Cardinality({j \in Q : j <= i /\ s[j][field][1] = s[i][field][1]})>>

DeathThreshold == 5
ConfirmedThreshold == 50

RegionTable(rows) ==
    LET s == SortValues(RegionProjection(rows), TRUE)
    IN [i \in 1..Len(s) |->
          [idx |-> s[i].idx, date |-> s[i].date, maille_nom |-> s[i].maille_nom,
           cas_confirmes |-> s[i].cas_confirmes, deces |-> s[i].deces,
           delta_deces |-> GroupDiff(s, i, "deces"),
           delta_cas_confirmes |-> GroupDiff(s, i, "cas_confirmes"),
           fatality_rate |-> Divide(s[i].deces, s[i].cas_confirmes),
           days_after_5_deaths |-> RankFirst(s, i, "deces", DeathThreshold),
           days_after_50_confirmed |-> RankFirst(s, i, "cas_confirmes", ConfirmedThreshold)]]

----
\* National branch of get_data.
IsNationalOr(r) == r.granularite = "pays" \/ r.source_type = "sante-publique-france"

IsNational(r) == r.granularite = "pays" /\ r.source_type = "sante-publique-france"

MetricTypes == <<"cas_confirmes", "deces", "reanimation">>

FillNa(x) == IF x = Null THEN 0 ELSE x[1]

\* pd.melt(id_vars=["date"], value_vars=MetricTypes) then fillna(0):
\* all rows of the first value column, then of the second, ...
FrTable(rows) ==
    LET I == {i \in 1..Len(rows) : IsNational(rows[i])}
        n == Cardinality(I)
        ord == CHOOSE f \in [1..n -> I] : \A a, b \in 1..n : a < b => f[a] < f[b]
    IN [k \in 1..(3 * n) |->
          LET t == MetricTypes[((k - 1) \div n) + 1]
              r == rows[ord[((k - 1) % n) + 1]]
          IN [date |-> r.date, type |-> t, nombre |-> FillNa(r[t])]]

----
\* Exception raised by get_data when the CSV lacks columns, in the order the
\* statements touch them: pd.read_csv on a body with no columns (EmptyDataError), data.granularite / data.source_type (attribute
\* access), pd.melt id_vars / value_vars, then the regional projection.
ColumnErrorNoValueVars(cs) ==
    CASE cs = {} -> "EmptyDataError"
      [] "granularite" \notin cs -> "AttributeError"
      [] "source_type" \notin cs -> "AttributeError"
      [] "date" \notin cs -> "KeyError"
      [] "maille_nom" \notin cs -> "KeyError"
      [] OTHER -> "none"

ColumnError(cs) ==
    CASE cs = {} -> "EmptyDataError"
      [] "granularite" \notin cs -> "AttributeError"
      [] "source_type" \notin cs -> "AttributeError"
      [] ~({"date", "cas_confirmes", "deces", "reanimation"} \subseteq cs) -> "KeyError"
      [] "maille_nom" \notin cs -> "KeyError"
      [] OTHER -> "none"

UniqueOnlyFirst(s) == IF s = <<>> THEN <<>> ELSE <<s[1].maille_nom>>

\* pandas unique(): distinct values in order of appearance
RECURSIVE Unique(_)
Unique(s) ==
    IF s = <<>> THEN <<>>
    ELSE LET u == Unique(SubSeq(s, 1, Len(s) - 1))
             x == s[Len(s)].maille_nom
         IN IF \E k \in 1..Len(u) : u[k] = x THEN u ELSE Append(u, x)

Range(f) == {f[k] : k \in DOMAIN f}

\* df[df["maille_nom"].isin(sel)]
SelectIn(s, S) == SelectSeq(s, LAMBDA r : r.maille_nom \in S)

\* Lines 84-99, run by the script on the tables get_data returned to it:
\* regions list, multiselect (any subset, default all), filter.
Render(reg) ==
    /\ regions' = Unique(reg)
    /\ \E S \in SUBSET Range(Unique(reg)) :
         /\ sel' = S
         /\ view' = SortValues(SelectIn(reg, S), FALSE)
    /\ filtered' = TRUE

\* get_data raised: the script run stops before line 84.
NoRender ==
    /\ regions' = <<>> /\ sel' = {} /\ view' = <<>> /\ filtered' = FALSE

\* @st.cache around get_data (legacy cache): the key hashes the arguments as
\* passed, so get_data(), get_data(URL) and get_data(url=URL) are distinct
\* entries; exceptions are not cached; no ttl, no max_entries; no lock is held
\* between the cache lookup and the write of a computed result.
Sessions == {"s1", "s2"}
Keys == {"get_data()", "get_data(URL)", "get_data(url=URL)", "get_data(MIRROR)"}
Urls == {"url_opencovid19", "url_mirror"}

\* url the call reads (the default argument is URL_OPENCOVID19)
KeyUrl(k) == IF k = "get_data(MIRROR)" THEN "url_mirror" ELSE "url_opencovid19"

CacheHitNever(c, k) == FALSE

CacheHit(c, k) == k \in DOMAIN c

\* Entry of the decorated get_data in session s: cache lookup; on a hit the
\* stored tables are returned, on a miss the body starts running.
GetDataStart(s, k) ==
    /\ spc[s] = "idle"
    /\ calls' = calls + 1
    /\ lastKey' = k
    /\ IF CacheHit(cache, k)
         THEN /\ lastHit' = TRUE
              /\ pc' = "done" /\ err' = "none"
              /\ region' = cache[k].region /\ fr' = cache[k].fr
              /\ Render(cache[k].region)
              /\ UNCHANGED <<spc, skey, data, cols, cache, fetchCount, writes>>
         ELSE /\ lastHit' = FALSE
              /\ spc' = [spc EXCEPT ![s] = "running"]
              /\ skey' = [skey EXCEPT ![s] = k]
              /\ UNCHANGED <<pc, err, region, fr, data, cols, cache, fetchCount, writes,
                             regions, sel, view, filtered>>

\* Body of get_data in session s (lines 25-77): pd.read_csv reads the url
\* (the server answers a CSV with columns cs and rows rows), the tables are
\* computed, and st.cache stores them under the call's key unless the body
\* raised.
GetData(s, cs, rows) ==
    /\ spc[s] = "running"
    /\ fetchCount' = [fetchCount EXCEPT ![KeyUrl(skey[s])] = @ + 1]
    /\ data' = rows
    /\ cols' = cs
    /\ IF ColumnError(cs) # "none"
         THEN /\ pc' = "error" /\ err' = ColumnError(cs)
              /\ region' = <<>> /\ fr' = <<>>
              /\ NoRender
              /\ UNCHANGED <<cache, writes>>
         ELSE LET res == [region |-> RegionTable(rows), fr |-> FrTable(rows)]
              IN /\ pc' = "done" /\ err' = "none"
                 /\ region' = res.region /\ fr' = res.fr
                 /\ Render(res.region)
                 /\ cache' = [k \in DOMAIN cache \cup {skey[s]} |->
                                IF k = skey[s] THEN res ELSE cache[k]]
                 /\ writes' = [writes EXCEPT ![skey[s]] = @ + 1]
    /\ spc' = [spc EXCEPT ![s] = "idle"]
    /\ skey' = [skey EXCEPT ![s] = "none"]
    /\ lastKey' = skey[s]
    /\ lastHit' = FALSE
    /\ UNCHANGED calls

----
MaxRows == 3
MaxNatRows == 2
MaxCalls == 4       \* get_data calls in the cache specification
MaxTableCalls == 1  \* get_data calls in the table specifications
Dates == {1, 2}

SeqsOf(S, n) == UNION {[1..k -> S] : k \in 0..n}

\* (cas_confirmes, deces) pairs: below / above both thresholds, not monotone
CountPairs == {<<0, 6>>, <<60, 0>>, <<60, 9>>, <<70, 6>>}

RegionRows ==
    {[date |-> d, granularite |-> "region", source_type |-> "agences-regionales-sante",
      maille_nom |-> g, cas_confirmes |-> <<p[1]>>, deces |-> <<p[2]>>, reanimation |-> Null] :
       d \in Dates, g \in {"Bretagne", "Grand Est"}, p \in CountPairs}

GrandEstRow(d, x) ==
    [date |-> d, granularite |-> "region", source_type |-> "agences-regionales-sante",
     maille_nom |-> "Grand Est", cas_confirmes |-> <<100>>, deces |-> <<x>>,
     reanimation |-> Null]

GrandEstExample == <<GrandEstRow(1, 0), GrandEstRow(2, 2), GrandEstRow(3, 6), GrandEstRow(4, 9)>>

NationalRows ==
    [date : Dates, granularite : {"pays", "region"},
     source_type : {"sante-publique-france", "agences-regionales-sante"},
     maille_nom : {"France"}, cas_confirmes : {Null, <<5>>}, deces : {Null, <<2>>},
     reanimation : {Null, <<3>>}]

Init ==
    /\ data = <<>>
    /\ cols = AllCols
    /\ pc = "idle"
    /\ err = "none"
    /\ region = <<>>
    /\ fr = <<>>
    /\ regions = <<>>
    /\ sel = {}
    /\ view = <<>>
    /\ filtered = FALSE
    /\ cache = [k \in {} |-> "none"]
    /\ fetchCount = [u \in Urls |-> 0]
    /\ writes = [k \in Keys |-> 0]
    /\ calls = 0
    /\ spc = [s \in Sessions |-> "idle"]
    /\ skey = [s \in Sessions |-> "none"]
    /\ lastKey = "none"
    /\ lastHit = FALSE

\* Line 81: the script's call get_data() in one session.
CallMain == calls < MaxTableCalls /\ GetDataStart("s1", "get_data()")

LoadRegion ==
    /\ spc["s1"] = "running"
    /\ \E rows \in SeqsOf(RegionRows, MaxRows) \cup {GrandEstExample} : GetData("s1", AllCols, rows)

LoadNational ==
    /\ spc["s1"] = "running"
    /\ \E rows \in SeqsOf(NationalRows, MaxNatRows) : GetData("s1", AllCols, rows)

LoadColumns ==
    /\ spc["s1"] = "running"
    /\ \E cs \in SUBSET AllCols : GetData("s1", cs, <<>>)

\* Server answers in the cache specification: a valid CSV (empty, with one
\* national row or with one regional row) or a CSV without the deces column.
CacheRow == [date |-> 1, granularite |-> "pays", source_type |-> "sante-publique-france",
             maille_nom |-> "France", cas_confirmes |-> <<5>>, deces |-> <<2>>,
             reanimation |-> Null]

\* Line 81 run by any script session (sessions run concurrently).
Call == calls < MaxCalls /\ \E s \in Sessions : GetDataStart(s, "get_data()")

Fetch ==
    \E s \in Sessions :
      /\ spc[s] = "running"
      /\ \/ GetData(s, AllCols, <<>>)
         \/ GetData(s, AllCols, <<CacheRow>>)
         \/ GetData(s, AllCols, <<[CacheRow EXCEPT !.granularite = "region",
                                      !.source_type = "agences-regionales-sante",
                                      !.maille_nom = "Bretagne"]>>)
         \/ GetData(s, AllCols \ {"deces"}, <<CacheRow>>)

NextRegion == CallMain \/ LoadRegion
NextNational == CallMain \/ LoadNational
NextColumns == CallMain \/ LoadColumns
NextCache == Call \/ Fetch

Next == CallMain \/ LoadRegion \/ LoadNational \/ LoadColumns \/ Call \/ Fetch

Spec == Init /\ [][Next]_vars
SpecRegion == Init /\ [][NextRegion]_vars
SpecNational == Init /\ [][NextNational]_vars
SpecColumns == Init /\ [][NextColumns]_vars
SpecCache == Init /\ [][NextCache]_vars


----
\* Properties of the regional table.

SameRegion(i, j) == region[i].maille_nom = region[j].maille_nom

\* C1: per region the non-null days_after_5_deaths are exactly 1..k with
\* k = #rows with deces > 5, rows with deces <= 5 are null, and the ranks
\* increase with the date (earliest qualifying date gets 1), even when
\* deces is not monotone in date.
DaysAfter5DeathsInDateOrder ==
    pc = "done" =>
      /\ \A i \in DOMAIN region :
           (region[i].days_after_5_deaths # Null) <=> (region[i].deces # Null /\ region[i].deces[1] > 5)
      /\ \A g \in {region[i].maille_nom : i \in DOMAIN region} :
           LET Q == {i \in DOMAIN region : region[i].maille_nom = g /\ region[i].days_after_5_deaths # Null}
           IN {region[i].days_after_5_deaths[1] : i \in Q} = 1..Cardinality(Q)
      /\ \A i, j \in DOMAIN region :
           (SameRegion(i, j) /\ region[i].date < region[j].date
            /\ region[i].days_after_5_deaths # Null /\ region[j].days_after_5_deaths # Null)
             => region[i].days_after_5_deaths[1] < region[j].days_after_5_deaths[1]

\* C2: days_after_50_confirmed is null when cas_confirmes <= 50 and over a
\* region's rows with cas_confirmes > 50 takes 1..k in ascending date order.
DaysAfter50ConfirmedInDateOrder ==
    pc = "done" =>
      /\ \A i \in DOMAIN region :
           (region[i].days_after_50_confirmed # Null)
             <=> (region[i].cas_confirmes # Null /\ region[i].cas_confirmes[1] > 50)
      /\ \A g \in {region[i].maille_nom : i \in DOMAIN region} :
           LET Q == {i \in DOMAIN region : region[i].maille_nom = g /\ region[i].days_after_50_confirmed # Null}
           IN {region[i].days_after_50_confirmed[1] : i \in Q} = 1..Cardinality(Q)
      /\ \A i, j \in DOMAIN region :
           (SameRegion(i, j) /\ region[i].date < region[j].date
            /\ region[i].days_after_50_confirmed # Null /\ region[j].days_after_50_confirmed # Null)
             => region[i].days_after_50_confirmed[1] < region[j].days_after_50_confirmed[1]

\* C3: fatality_rate is null (NaN) iff cas_confirmes = 0, and otherwise is
\* exactly deces / cas_confirmes; never infinite.
FatalityNullIffNoCases ==
    pc = "done" =>
      \A i \in DOMAIN region :
        /\ (region[i].fatality_rate.kind = "nan") <=> (region[i].cas_confirmes = <<0>>)
        /\ region[i].cas_confirmes # <<0>> =>
             /\ region[i].fatality_rate.kind = "num"
             /\ region[i].fatality_rate.n = region[i].deces[1]
             /\ region[i].fatality_rate.d = region[i].cas_confirmes[1]

\* C4: delta_deces / delta_cas_confirmes are null exactly on the first row of
\* each region (no earlier date in that region) and elsewhere equal the value
\* minus the previous row's value of the same region.
DeltasWithinRegion ==
    pc = "done" =>
      \A i \in DOMAIN region :
        LET first == i = 1 \/ ~SameRegion(i - 1, i)
        IN /\ (region[i].delta_deces = Null) <=> first
           /\ (region[i].delta_cas_confirmes = Null) <=> first
           /\ first => \A j \in DOMAIN region : SameRegion(i, j) => region[j].date >= region[i].date
           /\ ~first =>
                /\ region[i].delta_deces = <<region[i].deces[1] - region[i - 1].deces[1]>>
                /\ region[i].delta_cas_confirmes
                     = <<region[i].cas_confirmes[1] - region[i - 1].cas_confirmes[1]>>

DeltasWithinRegionWitness ==
    pc = "done" /\ Len(region) = 3
    /\ region[1].maille_nom # region[3].maille_nom
    /\ region[2].delta_deces # Null /\ region[2].delta_deces # <<0>>

\* C5: "Grand Est" with deces [0, 2, 6, 9] on four consecutive dates gives
\* delta_deces [null, 2, 4, 3] and days_after_5_deaths [null, null, 1, 2].
GrandEstExampleResult ==
    (pc = "done" /\ data = GrandEstExample) =>
      /\ Len(region) = 4
      /\ [k \in 1..4 |-> region[k].delta_deces] = <<Null, <<2>>, <<4>>, <<3>>>>
      /\ [k \in 1..4 |-> region[k].days_after_5_deaths] = <<Null, Null, <<1>>, <<2>>>>

GrandEstExampleWitness == pc = "done" /\ data = GrandEstExample

\* C7: the regional rows are sorted by (maille_nom, date) and rows with equal
\* (maille_nom, date) keep their input order; every regional input row is there.
RegionRowsSortedStable ==
    pc = "done" =>
      /\ {region[i].idx : i \in DOMAIN region}
           = {k \in DOMAIN data : data[k].granularite = "region"
                                  /\ data[k].source_type = "agences-regionales-sante"}
      /\ \A i, j \in DOMAIN region : i < j =>
           \/ RegionRank(region[i].maille_nom) < RegionRank(region[j].maille_nom)
           \/ SameRegion(i, j) /\ region[i].date < region[j].date
           \/ SameRegion(i, j) /\ region[i].date = region[j].date /\ region[i].idx < region[j].idx

RegionRowsSortedStableWitness ==
    pc = "done" /\ \E i \in DOMAIN region : i > 1 /\ SameRegion(i - 1, i)
                                           /\ region[i - 1].date = region[i].date
                                           /\ region[i - 1].deces # region[i].deces

\* C9: with the default selection (all distinct maille_nom) the filtered view
\* holds the same rows as the regional table; the table itself is untouched.
FullSelectionKeepsRows ==
    (filtered /\ sel = Range(regions)) =>
      /\ Len(view) = Len(region)
      /\ Range(view) = Range(region)
      /\ regions = Unique(region)

FullSelectionKeepsRowsWitness ==
    filtered /\ sel = Range(regions) /\ Cardinality(sel) = 2 /\ Len(region) = 3

\* C6: the national table has exactly one row per selected input row and
\* metric type, with that row's date and value (null -> 0).
NationalUnpivot ==
    pc = "done" =>
      LET S == {i \in DOMAIN data : data[i].granularite = "pays"
                                    /\ data[i].source_type = "sante-publique-france"}
      IN /\ Len(fr) = 3 * Cardinality(S)
         /\ \A t \in {"cas_confirmes", "deces", "reanimation"}, d \in Dates, v \in 0..5 :
              Cardinality({k \in DOMAIN fr : fr[k] = [date |-> d, type |-> t, nombre |-> v]})
                = Cardinality({i \in S : data[i].date = d
                                         /\ (IF data[i][t] = <<>> THEN 0 ELSE data[i][t][1]) = v})

NationalUnpivotWitness ==
    pc = "done" /\ Len(fr) = 3 /\ \E k \in DOMAIN fr : fr[k].nombre = 0
    /\ \E i \in DOMAIN data : data[i].granularite = "region"

====
